---- MODULE Spec2Model ----
(***************************************************************************)
(* The task service of the Copilot-Training repository.                    *)
(*                                                                         *)
(*  - the Go variant: the chi handlers (handlers.go) over the in-memory    *)
(*    store (store.go), both emitted by backend/generate_api.sh;           *)
(*  - the Java variant: TaskController / TaskService / TaskMapper over a   *)
(*    JPA repository.                                                      *)
(*                                                                         *)
(* Spec runs one variant (chosen by Init) one request at a time.           *)
(* Strings are sequences of one-character strings, so that emptiness and   *)
(* trimming are computed and not assumed.                                  *)
(***************************************************************************)
EXTENDS Integers, Sequences, FiniteSets, TLC

VARIABLES
    variant,    \* "go" or "java": the implementation that serves the requests
    tasks,      \* store.go: tasks map[int64]Task
    nextID,     \* store.go: nextID int64
    repo,       \* the tasks table behind TaskRepository: id -> Task entity
    seq,        \* the next value of the table's identity column
    clock,      \* the time Instant.now() reads
    last,       \* the last HTTP exchange: request and response
    issued,     \* history: ids returned by successful creates, in order
    deleted,    \* history: ids removed by a successful delete
    nDeleted,   \* history: number of successful deletes
    serial,     \* history: the store had every mutation run alone, in lock order
    mu,         \* store.go: tasksMu sync.RWMutex
    pc,         \* per goroutine: the statement of the store function it is at
    call,       \* per goroutine: the store function it runs and its arguments
    local,      \* per goroutine: the locals task and found, and its result
    started,    \* number of store calls started so far
    main        \* main.go: the process, from its start to its exit

goroutines == <<mu, pc, call, local, started>>

vars == <<variant, tasks, nextID, repo, seq, clock, last, issued, deleted, nDeleted,
          serial, mu, pc, call, local, started, main>>

(***************************************************************************)
(* Bounds and input domains.                                               *)
(***************************************************************************)
MaxCreates == 2

ReqIds == 1..(MaxCreates + 1)

Titles == { <<>>, <<" ">>, <<"a">> }

Descriptions == { <<>>, <<"d">>, <<"e">> }

Durations == { 0, 1, 2 }

\* A request body that json.Decoder cannot decode into a TaskInput.
BadBody == [Malformed |-> TRUE]

\* TaskInput of the generated models: title, description, duration.
TaskInputs == [Title : Titles, Description : Descriptions, Duration : Durations]

Bodies == TaskInputs \cup {BadBody}

Whitespace == { " " }

RECURSIVE TrimLeft(_)
TrimLeft(s) == IF s # <<>> /\ Head(s) \in Whitespace THEN TrimLeft(Tail(s)) ELSE s

RECURSIVE TrimRight(_)
TrimRight(s) ==
    IF s # <<>> /\ s[Len(s)] \in Whitespace
    THEN TrimRight(SubSeq(s, 1, Len(s) - 1))
    ELSE s

Trim(s) == TrimRight(TrimLeft(s))

IsBlank(s) == Len(Trim(s)) = 0

(***************************************************************************)
(* store.go                                                                *)
(***************************************************************************)
NoTask == [Id |-> 0, Title |-> <<>>, Description |-> <<>>, Duration |-> 0]

\* Any order of the map's values: Go's map iteration order is unspecified.
Orders(m) ==
    { s \in [1..Cardinality(DOMAIN m) -> DOMAIN m] :
        \A i, j \in DOMAIN s : i # j => s[i] # s[j] }

GetAllTasks == { [i \in DOMAIN s |-> tasks[s[i]]] : s \in Orders(tasks) }

\* Mutant of CreateTask: nextID++ is forgotten.
CreateTaskNoIncrement(input) ==
    LET task == [Id          |-> nextID,
                 Title       |-> input.Title,
                 Description |-> input.Description,
                 Duration    |-> input.Duration]
    IN  [task   |-> task,
         tasks  |-> (nextID :> task) @@ tasks,
         nextID |-> nextID]

\* Mutant of CreateTask: nextID++ runs before the task is put in the map.
CreateTaskOffByOne(input) ==
    LET task == [Id          |-> nextID,
                 Title       |-> input.Title,
                 Description |-> input.Description,
                 Duration    |-> input.Duration]
    IN  [task   |-> task,
         tasks  |-> ((nextID + 1) :> task) @@ tasks,
         nextID |-> nextID + 1]

CreateTask(input) ==
    LET task == [Id          |-> nextID,
                 Title       |-> input.Title,
                 Description |-> input.Description,
                 Duration    |-> input.Duration]
    IN  [task   |-> task,
         tasks  |-> (nextID :> task) @@ tasks,
         nextID |-> nextID + 1]

GetTaskByID(id) ==
    IF id \in DOMAIN tasks
    THEN [task |-> tasks[id], found |-> TRUE]
    ELSE [task |-> NoTask, found |-> FALSE]

\* Mutant of UpdateTask: a missing id is inserted instead of reported.
UpdateTaskUpsert(id, input) ==
    LET task == [Id |-> id, Title |-> input.Title,
                 Description |-> input.Description, Duration |-> input.Duration]
    IN  [task |-> task, found |-> TRUE, tasks |-> (id :> task) @@ tasks]

\* Mutant of UpdateTask: the description is merged, not replaced.
UpdateTaskKeepsDescription(id, input) ==
    IF id \notin DOMAIN tasks
    THEN [task |-> NoTask, found |-> FALSE, tasks |-> tasks]
    ELSE LET task == [tasks[id] EXCEPT !.Title    = input.Title,
                                       !.Duration = input.Duration]
         IN  [task |-> task, found |-> TRUE,
              tasks |-> [tasks EXCEPT ![id] = task]]

UpdateTask(id, input) ==
    IF id \notin DOMAIN tasks
    THEN [task |-> NoTask, found |-> FALSE, tasks |-> tasks]
    ELSE LET task == [tasks[id] EXCEPT !.Title       = input.Title,
                                       !.Description = input.Description,
                                       !.Duration    = input.Duration]
         IN  [task |-> task, found |-> TRUE,
              tasks |-> [tasks EXCEPT ![id] = task]]

\* Mutant of DeleteTask: success is reported but the entry stays.
DeleteTaskKeeps(id) ==
    IF id \notin DOMAIN tasks
    THEN [found |-> FALSE, tasks |-> tasks]
    ELSE [found |-> TRUE, tasks |-> tasks]

DeleteTask(id) ==
    IF id \notin DOMAIN tasks
    THEN [found |-> FALSE, tasks |-> tasks]
    ELSE [found |-> TRUE,
          tasks |-> [k \in DOMAIN tasks \ {id} |-> tasks[k]]]

(***************************************************************************)
(* handlers.go                                                             *)
(***************************************************************************)
Error(msg) == [Message |-> msg]

NoContent == [Empty |-> TRUE]

\* The check both PostTasks and PutTasksId make on a decoded body.
InvalidInput(input) ==
    input.Title = <<>> \/ input.Description = <<>> \/ input.Duration < 1

\* Every handler result: the response, the store after it, and what it did.
Result(status, body, newTasks, newNextID, created, removed) ==
    [status |-> status, body |-> body, tasks |-> newTasks, nextID |-> newNextID,
     created |-> created, removed |-> removed]

\* Mutant of GetTasks: an empty store is reported as an error.
GetTasksFailsWhenEmpty(order) ==
    IF order = << >>
    THEN Result(404, Error("Task not found"), tasks, nextID, FALSE, FALSE)
    ELSE Result(200, order, tasks, nextID, FALSE, FALSE)

GetTasks(order) == Result(200, order, tasks, nextID, FALSE, FALSE)

\* Mutant of PostTasks: the id is allocated before the input is validated.
PostTasksConsumesId(body) ==
    IF body = BadBody
    THEN Result(400, Error("Invalid request body"), tasks, nextID, FALSE, FALSE)
    ELSE IF InvalidInput(body)
    THEN Result(400, Error("Missing or invalid required fields"),
                tasks, nextID + 1, FALSE, FALSE)
    ELSE LET r == CreateTask(body)
         IN  Result(201, r.task, r.tasks, r.nextID, TRUE, FALSE)

PostTasks(body) ==
    IF body = BadBody
    THEN Result(400, Error("Invalid request body"), tasks, nextID, FALSE, FALSE)
    ELSE IF InvalidInput(body)
    THEN Result(400, Error("Missing or invalid required fields"),
                tasks, nextID, FALSE, FALSE)
    ELSE LET r == CreateTask(body)
         IN  Result(201, r.task, r.tasks, r.nextID, TRUE, FALSE)

GetTasksId(id) ==
    LET r == GetTaskByID(id)
    IN  IF ~r.found
        THEN Result(404, Error("Task not found"), tasks, nextID, FALSE, FALSE)
        ELSE Result(200, r.task, tasks, nextID, FALSE, FALSE)

\* Mutant of PutTasksId: the decoded input is not validated.
PutTasksIdNoValidation(id, body) ==
    IF body = BadBody
    THEN Result(400, Error("Invalid request body"), tasks, nextID, FALSE, FALSE)
    ELSE LET r == UpdateTask(id, body)
         IN  IF ~r.found
             THEN Result(404, Error("Task not found"), tasks, nextID, FALSE, FALSE)
             ELSE Result(200, r.task, r.tasks, nextID, FALSE, FALSE)

\* Mutant of PutTasksId: the store is written before the input is validated.
PutTasksIdWritesFirst(id, body) ==
    IF body = BadBody
    THEN Result(400, Error("Invalid request body"), tasks, nextID, FALSE, FALSE)
    ELSE LET r == UpdateTask(id, body)
         IN  IF InvalidInput(body)
             THEN Result(400, Error("Missing or invalid required fields"),
                         r.tasks, nextID, FALSE, FALSE)
             ELSE IF ~r.found
             THEN Result(404, Error("Task not found"), tasks, nextID, FALSE, FALSE)
             ELSE Result(200, r.task, r.tasks, nextID, FALSE, FALSE)

PutTasksId(id, body) ==
    IF body = BadBody
    THEN Result(400, Error("Invalid request body"), tasks, nextID, FALSE, FALSE)
    ELSE IF InvalidInput(body)
    THEN Result(400, Error("Missing or invalid required fields"),
                tasks, nextID, FALSE, FALSE)
    ELSE LET r == UpdateTask(id, body)
         IN  IF ~r.found
             THEN Result(404, Error("Task not found"), tasks, nextID, FALSE, FALSE)
             ELSE Result(200, r.task, r.tasks, nextID, FALSE, FALSE)

\* Mutant of DeleteTasksId: a successful delete answers 200.
DeleteTasksIdAnswersOk(id) ==
    LET r == DeleteTask(id)
    IN  IF ~r.found
        THEN Result(404, Error("Task not found"), tasks, nextID, FALSE, FALSE)
        ELSE Result(200, NoContent, r.tasks, nextID, FALSE, TRUE)

DeleteTasksId(id) ==
    LET r == DeleteTask(id)
    IN  IF ~r.found
        THEN Result(404, Error("Task not found"), tasks, nextID, FALSE, FALSE)
        ELSE Result(204, NoContent, r.tasks, nextID, FALSE, TRUE)

(***************************************************************************)
(* One request served by the Go service.                                   *)
(***************************************************************************)
NoId == 0

Exchange(op, id, body, r) ==
    [op |-> op, id |-> id, input |-> body, status |-> r.status, body |-> r.body]

Serve(op, id, body, r) ==
    /\ tasks' = r.tasks
    /\ nextID' = r.nextID
    /\ last' = Exchange(op, id, body, r)
    /\ issued' = IF r.created THEN Append(issued, r.body.Id) ELSE issued
    /\ deleted' = IF r.removed THEN deleted \cup {id} ELSE deleted
    /\ nDeleted' = IF r.removed THEN nDeleted + 1 ELSE nDeleted
    /\ UNCHANGED <<variant, main, repo, seq, clock, serial, goroutines>>

GoGetTasks ==
    /\ variant = "go"
    /\ \E order \in GetAllTasks : Serve("list", NoId, BadBody, GetTasks(order))

GoPostTasks ==
    /\ variant = "go"
    /\ \E body \in Bodies :
         LET r == PostTasks(body)
         IN  /\ r.created => nextID <= MaxCreates
             /\ Serve("create", NoId, body, r)

GoGetTasksId ==
    /\ variant = "go"
    /\ \E id \in ReqIds : Serve("get", id, BadBody, GetTasksId(id))

GoPutTasksId ==
    /\ variant = "go"
    /\ \E id \in ReqIds, body \in Bodies : Serve("update", id, body, PutTasksId(id, body))

GoDeleteTasksId ==
    /\ variant = "go"
    /\ \E id \in ReqIds : Serve("delete", id, BadBody, DeleteTasksId(id))

(***************************************************************************)
(* The Java variant.  A nullable value is <<>> (null) or <<v>>.            *)
(* A Double number of hours is held in ticks of 1/TicksPerMinute minute,   *)
(* so that rounding to whole minutes is computed.                          *)
(***************************************************************************)
MaxClock == 1

TicksPerMinute == 4

MINUTES_PER_HOUR == 60

Null == << >>

Some(v) == << v >>

\* Request bodies: two valid ones that differ in every field, and one body
\* for each way a field of the first can be invalid.
ValidRequest1 ==
    [title |-> Some(<<"a">>), description |-> Some(<<"d">>),
     estimatedTime |-> Some(MINUTES_PER_HOUR * TicksPerMinute)]

ValidRequest2 ==
    [title |-> Some(<<" ", "b">>), description |-> Some(<< >>),
     estimatedTime |-> Some(TicksPerMinute \div 2)]

TaskRequests ==
    { ValidRequest1, ValidRequest2,
      [ValidRequest1 EXCEPT !.title = Null],
      [ValidRequest1 EXCEPT !.title = Some(<< >>)],
      [ValidRequest1 EXCEPT !.title = Some(<<" ">>)],
      [ValidRequest1 EXCEPT !.description = Null],
      [ValidRequest1 EXCEPT !.estimatedTime = Null],
      [ValidRequest1 EXCEPT !.estimatedTime = Some(-1)] }

JavaBodies == TaskRequests \cup {BadBody}

DigitChars == <<"0", "1", "2", "3", "4", "5", "6", "7", "8", "9">>

\* Long.toString of a non-negative id.
RECURSIVE LongToString(_)
LongToString(n) ==
    IF n < 10
    THEN << DigitChars[n + 1] >>
    ELSE Append(LongToString(n \div 10), DigitChars[(n % 10) + 1])

\* Long.parseLong of an unsigned decimal: ok is FALSE for NumberFormatException.
RECURSIVE ParseDigits(_, _)
ParseDigits(s, acc) ==
    IF s = << >>
    THEN [ok |-> TRUE, value |-> acc]
    ELSE IF \E d \in 0..9 : DigitChars[d + 1] = Head(s)
    THEN ParseDigits(Tail(s),
                     10 * acc + (CHOOSE d \in 0..9 : DigitChars[d + 1] = Head(s)))
    ELSE [ok |-> FALSE, value |-> 0]

ParseLong(s) == IF s = << >> THEN [ok |-> FALSE, value |-> 0] ELSE ParseDigits(s, 0)

PathIds == { LongToString(i) : i \in ReqIds } \cup { <<"x">> }

(***************************************************************************)
(* Task.java                                                               *)
(***************************************************************************)
\* Mutant of NewTask: the two instants are assigned to the wrong fields.
NewTaskSwapped(title, description, duration, createdAt, updatedAt) ==
    [id |-> NoId, title |-> title, description |-> description,
     duration |-> duration, createdAt |-> updatedAt, updatedAt |-> createdAt]

\* new Task(title, description, duration): the two Instant.now() calls read
\* createdAt and then updatedAt; the id is unset until the entity is saved.
NewTask(title, description, duration, createdAt, updatedAt) ==
    [id |-> NoId, title |-> title, description |-> description,
     duration |-> duration, createdAt |-> createdAt, updatedAt |-> updatedAt]

(***************************************************************************)
(* TaskRequest: the JSR-380 constraints, as the messages of the violations *)
(***************************************************************************)
Violations(request) ==
    (IF request.title = Null \/ IsBlank(request.title[1])
     THEN {"Title is required"} ELSE {})
    \cup
    (IF request.title # Null /\ ~(Len(request.title[1]) \in 1..255)
     THEN {"Title must be between 1 and 255 characters"} ELSE {})
    \cup
    (IF request.description = Null THEN {"Description is required"} ELSE {})
    \cup
    (IF request.estimatedTime = Null THEN {"Estimated time is required"} ELSE {})
    \cup
    (IF request.estimatedTime # Null /\ request.estimatedTime[1] < 0
     THEN {"Estimated time must be non-negative"} ELSE {})

(***************************************************************************)
(* TaskMapper.java                                                         *)
(***************************************************************************)
\* The width of a Java int, scaled down: an int holds -2^(IntBits-1) ..
\* 2^(IntBits-1) - 1, and a long is wide enough for every value met here.
IntBits == 8

MinInt == -(2 ^ (IntBits - 1))

MaxInt == 2 ^ (IntBits - 1) - 1

\* (int) of a long: the low IntBits bits, read as a signed number.
NarrowToInt(n) ==
    LET low == n % (2 ^ IntBits)
    IN  IF low > MaxInt THEN low - 2 ^ IntBits ELSE low

\* Math.round(hours * MINUTES_PER_HOUR): floor(x + 1/2) of x = ticks / TicksPerMinute.
MathRound(hours) == (2 * hours + TicksPerMinute) \div (2 * TicksPerMinute)

\* Mutant of convertHoursToMinutes: the fraction of a minute is cut off.
convertHoursToMinutesTruncating(hours) == NarrowToInt(hours \div TicksPerMinute)

\* Mutant of convertHoursToMinutes: an exact half of a minute is rounded down.
convertHoursToMinutesHalfDown(hours) ==
    NarrowToInt((2 * hours + TicksPerMinute - 1) \div (2 * TicksPerMinute))

convertHoursToMinutes(hours) == NarrowToInt(MathRound(hours))

\* Mutant of toResponse: the hours are rounded to whole hours.
toResponseWholeHours(task) ==
    [id            |-> LongToString(task.id),
     title         |-> task.title,
     description   |-> task.description,
     estimatedTime |-> ((2 * task.duration + MINUTES_PER_HOUR) \div (2 * MINUTES_PER_HOUR))
                           * MINUTES_PER_HOUR * TicksPerMinute]

toResponse(task) ==
    [id            |-> LongToString(task.id),
     title         |-> task.title,
     description   |-> task.description,
     estimatedTime |-> task.duration * TicksPerMinute]

toEntity(request, createdAt, updatedAt) ==
    NewTask(request.title[1], request.description[1],
            convertHoursToMinutes(request.estimatedTime[1]), createdAt, updatedAt)

\* Mutant of updateEntity: the entity is stamped as if it were new.
updateEntityResetsCreatedAt(task, request) ==
    [task EXCEPT !.title       = request.title[1],
                 !.description = request.description[1],
                 !.duration    = convertHoursToMinutes(request.estimatedTime[1]),
                 !.createdAt   = clock]

updateEntity(task, request) ==
    [task EXCEPT !.title       = request.title[1],
                 !.description = request.description[1],
                 !.duration    = convertHoursToMinutes(request.estimatedTime[1])]

(***************************************************************************)
(* TaskRepository: the JpaRepository operations the service uses           *)
(***************************************************************************)
findAll == { [i \in DOMAIN s |-> repo[s[i]]] : s \in Orders(repo) }

findById(id) == IF id \in DOMAIN repo THEN Some(repo[id]) ELSE Null

existsById(id) == id \in DOMAIN repo

\* save: an entity without id is inserted under the next identity value, an
\* entity with an id is written over its row.
save(task) ==
    LET saved == IF task.id = NoId THEN [task EXCEPT !.id = seq] ELSE task
    IN  [saved |-> saved,
         repo  |-> (saved.id :> saved) @@ repo,
         seq   |-> IF task.id = NoId THEN seq + 1 ELSE seq]

deleteById(id) == [k \in DOMAIN repo \ {id} |-> repo[k]]

(***************************************************************************)
(* TaskService.java: thrown is "none" or the name of the exception         *)
(***************************************************************************)
Outcome(thrown, value, newRepo, newSeq, newClock, created, removed) ==
    [thrown |-> thrown, value |-> value, repo |-> newRepo, seq |-> newSeq,
     clock |-> newClock, created |-> created, removed |-> removed]

NotFound(id) == Outcome("TaskNotFoundException", id, repo, seq, clock, FALSE, FALSE)

findTaskOrThrow(id) == findById(id)

getAllTasks(order) ==
    Outcome("none", [i \in DOMAIN order |-> toResponse(order[i])],
            repo, seq, clock, FALSE, FALSE)

getTaskById(id) ==
    LET task == findTaskOrThrow(id)
    IN  IF task = Null
        THEN NotFound(id)
        ELSE Outcome("none", toResponse(task[1]), repo, seq, clock, FALSE, FALSE)

\* updatedAt is read by the second Instant.now() of the constructor.
createTask(request, updatedAt) ==
    LET task == toEntity(request, clock, updatedAt)
        s    == save(task)
    IN  Outcome("none", toResponse(s.saved), s.repo, s.seq, updatedAt, TRUE, FALSE)

\* Mutant of updateTask: the entity is saved before its absence is reported.
updateTaskSavesFirst(id, request) ==
    LET existingTask == findTaskOrThrow(id)
    IN  IF existingTask = Null
        THEN LET s == save(updateEntity([NewTask(<< >>, << >>, 0, clock, clock)
                                            EXCEPT !.id = id], request))
             IN  Outcome("TaskNotFoundException", id, s.repo, s.seq, clock,
                         FALSE, FALSE)
        ELSE LET s == save(updateEntity(existingTask[1], request))
             IN  Outcome("none", toResponse(s.saved), s.repo, s.seq, clock,
                         FALSE, FALSE)

updateTask(id, request) ==
    LET existingTask == findTaskOrThrow(id)
    IN  IF existingTask = Null
        THEN NotFound(id)
        ELSE LET s == save(updateEntity(existingTask[1], request))
             IN  Outcome("none", toResponse(s.saved), s.repo, s.seq, clock,
                         FALSE, FALSE)

deleteTask(id) ==
    IF ~existsById(id)
    THEN NotFound(id)
    ELSE Outcome("none", NoContent, deleteById(id), seq, clock, FALSE, TRUE)

(***************************************************************************)
(* GlobalExceptionHandler                                                  *)
(***************************************************************************)
ErrorResponse(message, code) == [message |-> message, code |-> code]

handleTaskNotFoundException(taskId) ==
    [status |-> 404,
     body   |-> ErrorResponse(<<"Task not found with id: ", taskId>>, "TASK_NOT_FOUND")]

handleValidationException(messages) ==
    [status |-> 400, body |-> ErrorResponse(messages, "VALIDATION_ERROR")]

handleNumberFormatException ==
    [status |-> 400, body |-> ErrorResponse("Invalid ID format", "INVALID_ID_FORMAT")]

\* Mutant of handleGenericException: the exception's message is sent.
handleGenericExceptionLeaks(ex) ==
    [status |-> 500, body |-> ErrorResponse(ex.message, "INTERNAL_ERROR")]

\* The exception is logged and nothing of it is sent.
handleGenericException(ex) ==
    [status |-> 500,
     body   |-> ErrorResponse("An unexpected error occurred", "INTERNAL_ERROR")]

\* Exceptions that reach the advice: their class and their message.
ExceptionTypes ==
    {"TaskNotFoundException", "MethodArgumentNotValidException",
     "NumberFormatException", "HttpMessageNotReadableException",
     "DataAccessResourceFailureException", "NullPointerException"}

ExceptionMessages == {"JSON parse error", "Connection refused", "x"}

Exceptions == [type : ExceptionTypes, message : ExceptionMessages]

\* The exception Spring throws for a body it cannot read.
NotReadable ==
    [type |-> "HttpMessageNotReadableException", message |-> "JSON parse error"]

\* @RestControllerAdvice: the handler of the exception's own class, or else
\* the handler of Exception.
handleException(ex) ==
    CASE ex.type = "TaskNotFoundException" ->
           [status |-> 404, body |-> ErrorResponse(ex.message, "TASK_NOT_FOUND")]
      [] ex.type = "MethodArgumentNotValidException" ->
           handleValidationException(ex.message)
      [] ex.type = "NumberFormatException" -> handleNumberFormatException
      [] OTHER -> handleGenericException(ex)

(***************************************************************************)
(* TaskController: the response and the outcome of the service call        *)
(***************************************************************************)
Unserved == Outcome("none", NoContent, repo, seq, clock, FALSE, FALSE)

Answer(response, outcome) ==
    [status |-> response.status, body |-> response.body, repo |-> outcome.repo,
     seq |-> outcome.seq, clock |-> outcome.clock,
     created |-> outcome.created, removed |-> outcome.removed]

\* The response to what the service returned or threw.
Respond(okStatus, outcome) ==
    IF outcome.thrown = "TaskNotFoundException"
    THEN Answer(handleTaskNotFoundException(outcome.value), outcome)
    ELSE Answer([status |-> okStatus, body |-> outcome.value], outcome)

\* @Valid @RequestBody: an unreadable body is not a validation failure, it
\* reaches the handler of Exception.
BodyFailure(body) ==
    IF body = BadBody
    THEN Some(handleException(NotReadable))
    ELSE IF Violations(body) # {}
    THEN Some(handleValidationException(Violations(body)))
    ELSE Null

ControllerGetAllTasks(order) == Respond(200, getAllTasks(order))

ControllerGetTaskById(id) ==
    LET taskId == ParseLong(id)
    IN  IF ~taskId.ok
        THEN Answer(handleNumberFormatException, Unserved)
        ELSE Respond(200, getTaskById(taskId.value))

ControllerCreateTask(body, updatedAt) ==
    IF BodyFailure(body) # Null
    THEN Answer(BodyFailure(body)[1], Unserved)
    ELSE Respond(201, createTask(body, updatedAt))

ControllerUpdateTask(id, body) ==
    LET taskId == ParseLong(id)
    IN  IF BodyFailure(body) # Null
        THEN Answer(BodyFailure(body)[1], Unserved)
        ELSE IF ~taskId.ok
        THEN Answer(handleNumberFormatException, Unserved)
        ELSE Respond(200, updateTask(taskId.value, body))

ControllerDeleteTask(id) ==
    LET taskId == ParseLong(id)
    IN  IF ~taskId.ok
        THEN Answer(handleNumberFormatException, Unserved)
        ELSE Respond(204, deleteTask(taskId.value))

(***************************************************************************)
(* One request served by the Java service.                                 *)
(***************************************************************************)
JavaServe(op, id, body, r) ==
    /\ repo' = r.repo
    /\ seq' = r.seq
    /\ clock' = r.clock
    /\ last' = Exchange(op, id, body, r)
    /\ issued' = IF r.created THEN Append(issued, seq) ELSE issued
    /\ deleted' = IF r.removed THEN deleted \cup {ParseLong(id).value} ELSE deleted
    /\ nDeleted' = IF r.removed THEN nDeleted + 1 ELSE nDeleted
    /\ UNCHANGED <<variant, main, tasks, nextID, serial, goroutines>>

JavaGetAllTasks ==
    /\ variant = "java"
    /\ \E order \in findAll : JavaServe("list", Null, BadBody, ControllerGetAllTasks(order))

JavaCreateTask ==
    /\ variant = "java"
    /\ \E body \in JavaBodies, updatedAt \in clock..MaxClock :
         LET r == ControllerCreateTask(body, updatedAt)
         IN  /\ r.created => seq <= MaxCreates
             /\ ~r.created => updatedAt = clock
             /\ JavaServe("create", Null, body, r)

JavaGetTaskById ==
    /\ variant = "java"
    /\ \E id \in PathIds : JavaServe("get", id, BadBody, ControllerGetTaskById(id))

JavaUpdateTask ==
    /\ variant = "java"
    /\ \E id \in PathIds, body \in JavaBodies :
         JavaServe("update", id, body, ControllerUpdateTask(id, body))

JavaDeleteTask ==
    /\ variant = "java"
    /\ \E id \in PathIds : JavaServe("delete", id, BadBody, ControllerDeleteTask(id))

\* Time passes between requests.
Tick ==
    /\ variant = "java"
    /\ clock < MaxClock
    /\ clock' = clock + 1
    /\ UNCHANGED <<variant, main, tasks, nextID, repo, seq, last, issued, deleted, nDeleted,
                   serial, goroutines>>


(***************************************************************************)
(* store.go under concurrent requests: every request runs its store        *)
(* function in a goroutine of its own, statement by statement.             *)
(***************************************************************************)
NumProcs == 2

MaxCalls == 3

Procs == 1..NumProcs

\* The inputs the handlers pass on to the store (they have passed validation).
StoreInputs ==
    { [Title |-> <<"a">>, Description |-> <<"d">>, Duration |-> 1],
      [Title |-> <<" ">>, Description |-> <<"e">>, Duration |-> 2] }

NoCall == [op |-> "none", id |-> NoId, input |-> BadBody]

NoLocal == [task |-> NoTask, found |-> FALSE, result |-> << >>]

Unlocked == [writer |-> 0, readers |-> {}]

\* tasksMu.Lock() returns once no goroutine holds the lock.
\* Mutant: Lock() that excludes nobody.
CanLockAlways(p) == TRUE

\* Mutant: Lock() that waits for readers only, not for another writer.
CanLockAmongWriters(p) == mu.readers = {}

CanLock(p) == mu.writer = 0 /\ mu.readers = {}

\* Mutant: RLock() that does not wait for the writer.
CanRLockAlways(p) == TRUE

\* tasksMu.RLock() returns once no writer holds the lock.
CanRLock(p) == mu.writer = 0

Inflight(op) == Cardinality({ p \in Procs : call[p].op = op })

Goto(p, label) == pc' = [pc EXCEPT ![p] = label]

StoreUnchanged == UNCHANGED <<tasks, nextID>>

HistoryUnchanged == UNCHANGED <<issued, deleted, nDeleted, serial>>

Sequential == <<variant, main, repo, seq, clock, last>>

NoResult == [task |-> NoTask, found |-> FALSE]

\* What the store function of call c does and returns when it runs alone on
\* store s, from its Lock() to its Unlock().
Atomically(s, c) ==
    CASE c.op = "CreateTask" ->
           LET task == [Id          |-> s.nextID,
                        Title       |-> c.input.Title,
                        Description |-> c.input.Description,
                        Duration    |-> c.input.Duration]
           IN  [tasks  |-> (s.nextID :> task) @@ s.tasks,
                nextID |-> s.nextID + 1,
                task |-> task, found |-> FALSE]
      [] c.op = "UpdateTask" /\ c.id \in DOMAIN s.tasks ->
           LET task == [s.tasks[c.id] EXCEPT !.Title       = c.input.Title,
                                             !.Description = c.input.Description,
                                             !.Duration    = c.input.Duration]
           IN  [tasks  |-> [s.tasks EXCEPT ![c.id] = task],
                nextID |-> s.nextID,
                task |-> task, found |-> TRUE]
      [] c.op = "DeleteTask" /\ c.id \in DOMAIN s.tasks ->
           [tasks  |-> [k \in DOMAIN s.tasks \ {c.id} |-> s.tasks[k]],
            nextID |-> s.nextID,
            task |-> NoTask, found |-> TRUE]
      [] OTHER ->
           [tasks |-> s.tasks, nextID |-> s.nextID, task |-> NoTask, found |-> FALSE]

\* A request arrives and its handler calls a store function.
Call(p) ==
    /\ pc[p] = "idle"
    /\ started < MaxCalls
    /\ \E op \in {"GetAllTasks", "CreateTask", "GetTaskByID", "UpdateTask", "DeleteTask"},
          id \in ReqIds, input \in StoreInputs :
         /\ op = "CreateTask" => Len(issued) + Inflight("CreateTask") < MaxCreates
         /\ op \in {"GetAllTasks", "CreateTask"} => id = 1
         /\ op \in {"GetAllTasks", "GetTaskByID", "DeleteTask"} =>
                input = CHOOSE i \in StoreInputs : TRUE
         /\ call' = [call EXCEPT ![p] = [op |-> op, id |-> id, input |-> input]]
         /\ Goto(p, IF op \in {"GetAllTasks", "GetTaskByID"} THEN "RLock" ELSE "Lock")
    /\ started' = started + 1
    /\ UNCHANGED <<mu, local, Sequential>>
    /\ StoreUnchanged /\ HistoryUnchanged

\* tasksMu.Lock()
Lock(p) ==
    /\ pc[p] = "Lock"
    /\ CanLock(p)
    /\ mu' = [mu EXCEPT !.writer = p]
    /\ Goto(p, call[p].op)
    /\ LET r == Atomically(serial, call[p])
       IN  serial' = [tasks  |-> r.tasks,
                      nextID |-> r.nextID,
                      result |-> [serial.result EXCEPT
                                     ![p] = [task |-> r.task, found |-> r.found]]]
    /\ UNCHANGED <<call, local, started, Sequential, issued, deleted, nDeleted>>
    /\ StoreUnchanged

\* tasksMu.RLock()
RLock(p) ==
    /\ pc[p] = "RLock"
    /\ CanRLock(p)
    /\ mu' = [mu EXCEPT !.readers = @ \cup {p}]
    /\ Goto(p, call[p].op)
    /\ UNCHANGED <<call, local, started, Sequential>>
    /\ StoreUnchanged /\ HistoryUnchanged

\* GetAllTasks: result := the values of tasks, in the order the map yields them.
GetAllTasksRead(p) ==
    /\ pc[p] = "GetAllTasks"
    /\ \E result \in GetAllTasks :
         local' = [local EXCEPT ![p].result = result]
    /\ Goto(p, "RUnlock")
    /\ UNCHANGED <<mu, call, started, Sequential>>
    /\ StoreUnchanged /\ HistoryUnchanged

\* GetTaskByID: task, found := tasks[id]
GetTaskByIDRead(p) ==
    /\ pc[p] = "GetTaskByID"
    /\ local' = [local EXCEPT ![p].task = GetTaskByID(call[p].id).task,
                              ![p].found = GetTaskByID(call[p].id).found]
    /\ Goto(p, "RUnlock")
    /\ UNCHANGED <<mu, call, started, Sequential>>
    /\ StoreUnchanged /\ HistoryUnchanged

\* CreateTask: task := Task{Id: nextID, ...}
CreateTaskBuild(p) ==
    /\ pc[p] = "CreateTask"
    /\ local' = [local EXCEPT ![p].task = CreateTask(call[p].input).task]
    /\ Goto(p, "CreateTask_store")
    /\ UNCHANGED <<mu, call, started, Sequential>>
    /\ StoreUnchanged /\ HistoryUnchanged

\* CreateTask: tasks[nextID] = task
CreateTaskStore(p) ==
    /\ pc[p] = "CreateTask_store"
    /\ tasks' = (nextID :> local[p].task) @@ tasks
    /\ Goto(p, "CreateTask_incr")
    /\ UNCHANGED <<nextID, mu, call, local, started, Sequential>>
    /\ HistoryUnchanged

\* CreateTask: nextID++
CreateTaskIncr(p) ==
    /\ pc[p] = "CreateTask_incr"
    /\ nextID' = nextID + 1
    /\ Goto(p, "Unlock")
    /\ UNCHANGED <<tasks, mu, call, local, started, Sequential>>
    /\ HistoryUnchanged

\* Mutant of UpdateTaskRead: the not-found path returns without Unlock().
UpdateTaskReadReturnsLocked(p) ==
    /\ pc[p] = "UpdateTask"
    /\ local' = IF call[p].id \in DOMAIN tasks
                THEN [local EXCEPT ![p].task = UpdateTask(call[p].id, call[p].input).task,
                                   ![p].found = TRUE]
                ELSE local
    /\ Goto(p, IF call[p].id \in DOMAIN tasks THEN "UpdateTask_store" ELSE "idle")
    /\ call' = IF call[p].id \in DOMAIN tasks THEN call ELSE [call EXCEPT ![p] = NoCall]
    /\ UNCHANGED <<mu, started, Sequential>>
    /\ StoreUnchanged /\ HistoryUnchanged

\* UpdateTask: task, found := tasks[id]; if found, the three fields of the
\* local copy are set.
UpdateTaskRead(p) ==
    /\ pc[p] = "UpdateTask"
    /\ local' = [local EXCEPT ![p].task = UpdateTask(call[p].id, call[p].input).task,
                              ![p].found = UpdateTask(call[p].id, call[p].input).found]
    /\ Goto(p, IF call[p].id \in DOMAIN tasks THEN "UpdateTask_store" ELSE "Unlock")
    /\ UNCHANGED <<mu, call, started, Sequential>>
    /\ StoreUnchanged /\ HistoryUnchanged

\* UpdateTask: tasks[id] = task
UpdateTaskStore(p) ==
    /\ pc[p] = "UpdateTask_store"
    /\ tasks' = (call[p].id :> local[p].task) @@ tasks
    /\ Goto(p, "Unlock")
    /\ UNCHANGED <<nextID, mu, call, local, started, Sequential>>
    /\ HistoryUnchanged

\* DeleteTask: _, found := tasks[id]
DeleteTaskRead(p) ==
    /\ pc[p] = "DeleteTask"
    /\ local' = [local EXCEPT ![p].found = DeleteTask(call[p].id).found]
    /\ Goto(p, IF call[p].id \in DOMAIN tasks THEN "DeleteTask_delete" ELSE "Unlock")
    /\ UNCHANGED <<mu, call, started, Sequential>>
    /\ StoreUnchanged /\ HistoryUnchanged

\* DeleteTask: delete(tasks, id)
DeleteTaskDelete(p) ==
    /\ pc[p] = "DeleteTask_delete"
    /\ tasks' = [k \in DOMAIN tasks \ {call[p].id} |-> tasks[k]]
    /\ Goto(p, "Unlock")
    /\ UNCHANGED <<nextID, mu, call, local, started, Sequential>>
    /\ HistoryUnchanged

\* The deferred tasksMu.Unlock() and the return to the handler, which ends
\* the life of the function's locals.
Unlock(p) ==
    /\ pc[p] = "Unlock"
    /\ mu' = [mu EXCEPT !.writer = IF @ = p THEN 0 ELSE @]
    /\ issued' = IF call[p].op = "CreateTask"
                 THEN Append(issued, local[p].task.Id) ELSE issued
    /\ deleted' = IF call[p].op = "DeleteTask" /\ local[p].found
                  THEN deleted \cup {call[p].id} ELSE deleted
    /\ nDeleted' = IF call[p].op = "DeleteTask" /\ local[p].found
                   THEN nDeleted + 1 ELSE nDeleted
    /\ call' = [call EXCEPT ![p] = NoCall]
    /\ local' = [local EXCEPT ![p] = NoLocal]
    /\ serial' = [serial EXCEPT !.result[p] = NoResult]
    /\ Goto(p, "idle")
    /\ UNCHANGED <<started, Sequential>>
    /\ StoreUnchanged

\* The deferred tasksMu.RUnlock() and the return to the handler.
RUnlock(p) ==
    /\ pc[p] = "RUnlock"
    /\ mu' = [mu EXCEPT !.readers = @ \ {p}]
    /\ call' = [call EXCEPT ![p] = NoCall]
    /\ local' = [local EXCEPT ![p] = NoLocal]
    /\ Goto(p, "idle")
    /\ UNCHANGED <<started, Sequential>>
    /\ StoreUnchanged /\ HistoryUnchanged


(***************************************************************************)
(* main.go: the start of the Go task service.  What lies outside the       *)
(* program is an input: the environment, the .env file, and whether the    *)
(* database connection, the migrations and the server succeed.             *)
(***************************************************************************)
\* A variable that is not set reads as "".
Unset == ""

Keys == {"PORT", "DB_HOST"}

Environments == [Keys -> {Unset, "env"}]

\* The .env file: absent, or giving values to some keys.
NoFile == [missing |-> TRUE]

DotEnvFiles == {NoFile} \cup [Keys -> {Unset, "file"}]

\* godotenv.Load: a key of the file is set unless the environment has it.
godotenvLoad(env, file) ==
    [k \in Keys |-> IF env[k] # Unset THEN env[k] ELSE file[k]]

getEnv(env, key, defaultValue) ==
    IF env[key] # Unset THEN env[key] ELSE defaultValue

\* config.Load
Load(env) ==
    [Port |-> getEnv(env, "PORT", "8080"),
     Database |-> [Host |-> getEnv(env, "DB_HOST", "localhost")]]

NoConfig == [Port |-> "", Database |-> [Host |-> ""]]

NotExited == -1

\* The process as main() is entered.
Started(env) ==
    [pc |-> "godotenv", env |-> env, cfg |-> NoConfig, db |-> "none",
     migrated |-> FALSE, server |-> "none", steps |-> << >>,
     failed |-> "none", log |-> << >>, exit |-> NotExited]

\* logger.Error(message, ...); os.Exit(1) after the step has failed.
\* os.Exit does not run the deferred db.Close().
Fail(step, message) ==
    [main EXCEPT !.pc = "exited",
                 !.steps = Append(@, step),
                 !.failed = step,
                 !.log = Append(@, message),
                 !.exit = 1]

Service == <<variant, tasks, nextID, repo, seq, clock, last, issued, deleted, nDeleted,
             serial, mu, pc, call, local, started>>

\* if err := godotenv.Load(); err != nil { log.Println(...) }
MainLoadEnv ==
    /\ main.pc = "godotenv"
    /\ \E file \in DotEnvFiles :
         main' = IF file = NoFile
                 THEN [main EXCEPT !.pc = "config",
                                   !.log = Append(@, "No .env file found, using system environment variables")]
                 ELSE [main EXCEPT !.pc = "config",
                                   !.env = godotenvLoad(main.env, file)]
    /\ UNCHANGED Service

\* logger := logger.New(); cfg := config.Load(); logger.Info(...)
MainLoadConfig ==
    /\ main.pc = "config"
    /\ main' = [main EXCEPT !.pc = "NewConnection",
                            !.cfg = Load(main.env),
                            !.log = Append(@, "Configuration loaded")]
    /\ UNCHANGED Service

\* db, err := database.NewConnection(cfg.Database); defer db.Close()
MainNewConnection ==
    /\ main.pc = "NewConnection"
    /\ \E err \in BOOLEAN :
         main' = IF err
                 THEN Fail("NewConnection", "Failed to connect to database")
                 ELSE [main EXCEPT !.pc = "RunMigrations",
                                   !.db = "open",
                                   !.steps = Append(@, "NewConnection")]
    /\ UNCHANGED Service

\* The migrations' error is logged and the start goes on.
MainRunMigrationsGoesOn ==
    /\ main.pc = "RunMigrations"
    /\ \E err \in BOOLEAN :
         main' = IF err
                 THEN [main EXCEPT !.pc = "NewServer",
                                   !.failed = "RunMigrations",
                                   !.log = Append(@, "Failed to run migrations"),
                                   !.steps = Append(@, "RunMigrations")]
                 ELSE [main EXCEPT !.pc = "NewServer",
                                   !.migrated = TRUE,
                                   !.steps = Append(@, "RunMigrations")]
    /\ UNCHANGED Service

\* if err := database.RunMigrations(cfg.Database); err != nil { ... }
MainRunMigrations ==
    /\ main.pc = "RunMigrations"
    /\ \E err \in BOOLEAN :
         main' = IF err
                 THEN Fail("RunMigrations", "Failed to run migrations")
                 ELSE [main EXCEPT !.pc = "NewServer",
                                   !.migrated = TRUE,
                                   !.steps = Append(@, "RunMigrations")]
    /\ UNCHANGED Service

\* server := api.NewServer(db, logger, cfg); logger.Info("Starting server")
MainNewServer ==
    /\ main.pc = "NewServer"
    /\ main' = [main EXCEPT !.pc = "Run",
                            !.server = "created",
                            !.log = Append(@, "Starting server")]
    /\ UNCHANGED Service

\* server.Run(":" + cfg.Port) is called: it fails at once, or it listens.
MainRun ==
    /\ main.pc = "Run"
    /\ \E err \in BOOLEAN :
         main' = IF err
                 THEN Fail("Run", "Server failed to start")
                 ELSE [main EXCEPT !.pc = "serving",
                                   !.server = "listening",
                                   !.steps = Append(@, "Run")]
    /\ UNCHANGED Service

\* server.Run returns while serving: with an error, or with nil, and then
\* main returns, the deferred db.Close() runs and the exit status is 0.
MainRunReturns ==
    /\ main.pc = "serving"
    /\ \E err \in BOOLEAN :
         main' = IF err
                 THEN [main EXCEPT !.pc = "exited",
                                   !.server = "stopped",
                                   !.failed = "Run",
                                   !.log = Append(@, "Server failed to start"),
                                   !.exit = 1]
                 ELSE [main EXCEPT !.pc = "exited",
                                   !.server = "stopped",
                                   !.db = "closed",
                                   !.exit = 0]
    /\ UNCHANGED Service

\* The process the requests are served by: started with nothing set and
\* no .env file, connected, migrated and listening.
Serving ==
    [pc |-> "serving", env |-> [k \in Keys |-> Unset], cfg |-> Load([k \in Keys |-> Unset]),
     db |-> "open", migrated |-> TRUE, server |-> "listening",
     steps |-> <<"NewConnection", "RunMigrations", "Run">>, failed |-> "none",
     log |-> <<"No .env file found, using system environment variables",
               "Configuration loaded", "Starting server">>,
     exit |-> NotExited]

NoExchange == [op |-> "none", id |-> NoId, input |-> BadBody, status |-> 0,
               body |-> NoContent]

Init ==
    /\ variant \in {"go", "java"}
    /\ tasks = << >>
    /\ nextID = 1
    /\ repo = << >>
    /\ seq = 1
    /\ clock = 0
    /\ last = NoExchange
    /\ issued = << >>
    /\ deleted = {}
    /\ nDeleted = 0
    /\ serial = [tasks |-> << >>, nextID |-> 1, result |-> [p \in Procs |-> NoResult]]
    /\ mu = Unlocked
    /\ pc = [p \in Procs |-> "idle"]
    /\ call = [p \in Procs |-> NoCall]
    /\ local = [p \in Procs |-> NoLocal]
    /\ started = 0
    /\ main = Serving

\* The Go service as its process starts, in any environment.
InitMain ==
    /\ variant = "go"
    /\ tasks = << >>
    /\ nextID = 1
    /\ repo = << >>
    /\ seq = 1
    /\ clock = 0
    /\ last = NoExchange
    /\ issued = << >>
    /\ deleted = {}
    /\ nDeleted = 0
    /\ serial = [tasks |-> << >>, nextID |-> 1, result |-> [p \in Procs |-> NoResult]]
    /\ mu = Unlocked
    /\ pc = [p \in Procs |-> "idle"]
    /\ call = [p \in Procs |-> NoCall]
    /\ local = [p \in Procs |-> NoLocal]
    /\ started = 0
    /\ main \in { Started(env) : env \in Environments }

NextMain ==
    \/ MainLoadEnv
    \/ MainLoadConfig
    \/ MainNewConnection
    \/ MainRunMigrations
    \/ MainNewServer
    \/ MainRun
    \/ MainRunReturns

SpecMain == InitMain /\ [][NextMain]_vars

Next ==
    \/ GoGetTasks
    \/ GoPostTasks
    \/ GoGetTasksId
    \/ GoPutTasksId
    \/ GoDeleteTasksId
    \/ JavaGetAllTasks
    \/ JavaCreateTask
    \/ JavaGetTaskById
    \/ JavaUpdateTask
    \/ JavaDeleteTask
    \/ Tick

Spec == Init /\ [][Next]_vars

\* The Go store serving concurrent requests.
InitConc == Init /\ variant = "go"

NextConc ==
    \E p \in Procs :
        \/ Call(p)
        \/ Lock(p)
        \/ RLock(p)
        \/ GetAllTasksRead(p)
        \/ GetTaskByIDRead(p)
        \/ CreateTaskBuild(p)
        \/ CreateTaskStore(p)
        \/ CreateTaskIncr(p)
        \/ UpdateTaskRead(p)
        \/ UpdateTaskStore(p)
        \/ DeleteTaskRead(p)
        \/ DeleteTaskDelete(p)
        \/ Unlock(p)
        \/ RUnlock(p)

SpecConc == InitConc /\ [][NextConc]_vars

(***************************************************************************)
(* What a caller of the store holds.  Task is a struct and the map holds   *)
(* Task values, so `return task` hands the caller a value of its own; a    *)
(* value that aliased the map would be [alias |-> id].                     *)
(***************************************************************************)
\* Mutant of Returned: the caller gets a pointer to the map's entry.
ReturnedAlias(task) == [alias |-> task.Id]

\* return task: the struct is copied to the caller.
Returned(task) == task

\* The task a caller reads in what it holds.
View(held) ==
    IF DOMAIN held = {"alias"}
    THEN IF held.alias \in DOMAIN tasks THEN tasks[held.alias] ELSE NoTask
    ELSE held

\* held.Title = title, as UpdateTask does it on its local task: what the
\* caller holds afterwards, and the map afterwards.
SetTitle(held, title) ==
    IF DOMAIN held = {"alias"}
    THEN [held  |-> held,
          tasks |-> IF held.alias \in DOMAIN tasks
                    THEN [tasks EXCEPT ![held.alias].Title = title]
                    ELSE tasks]
    ELSE [held |-> [held EXCEPT !.Title = title], tasks |-> tasks]

\* A caller runs one store function from Lock() to Unlock() and keeps what
\* it returned in its own variables.
Keep(p, task, found, result, newTasks, newNextID) ==
    /\ started < MaxCalls
    /\ started' = started + 1
    /\ local' = [local EXCEPT ![p] = [task |-> task, found |-> found,
                                      result |-> result]]
    /\ tasks' = newTasks
    /\ nextID' = newNextID
    /\ UNCHANGED <<mu, pc, call, Sequential>>
    /\ HistoryUnchanged

CallerGetAllTasks(p) ==
    \E list \in GetAllTasks :
        Keep(p, NoTask, FALSE, [i \in DOMAIN list |-> Returned(list[i])],
             tasks, nextID)

CallerCreateTask(p) ==
    /\ nextID <= MaxCreates
    /\ \E input \in StoreInputs :
         LET r == CreateTask(input)
         IN  Keep(p, Returned(r.task), TRUE, << >>, r.tasks, r.nextID)

CallerGetTaskByID(p) ==
    \E id \in ReqIds :
        LET r == GetTaskByID(id)
        IN  Keep(p, IF r.found THEN Returned(r.task) ELSE NoTask, r.found, << >>,
                 tasks, nextID)

CallerUpdateTask(p) ==
    \E id \in ReqIds, input \in StoreInputs :
        LET r == UpdateTask(id, input)
        IN  Keep(p, IF r.found THEN Returned(r.task) ELSE NoTask, r.found, << >>,
                 r.tasks, nextID)

CallerDeleteTask(p) ==
    \E id \in ReqIds :
        LET r == DeleteTask(id)
        IN  Keep(p, NoTask, FALSE, << >>, r.tasks, nextID)

\* The caller changes the title of the task it holds.
CallerSetTitle(p) ==
    /\ local[p].found
    /\ \E input \in StoreInputs :
         LET w == SetTitle(local[p].task, input.Title)
         IN  /\ local' = [local EXCEPT ![p].task = w.held]
             /\ tasks' = w.tasks
    /\ UNCHANGED <<nextID, mu, pc, call, started, Sequential>>
    /\ HistoryUnchanged

NextCaller ==
    \E p \in Procs :
        \/ CallerGetAllTasks(p)
        \/ CallerCreateTask(p)
        \/ CallerGetTaskByID(p)
        \/ CallerUpdateTask(p)
        \/ CallerDeleteTask(p)
        \/ CallerSetTitle(p)

\* The Go store and callers that keep and change what it returned.
SpecCaller == InitConc /\ [][NextCaller]_vars

\* A store function that has been called runs on: the Go scheduler keeps
\* running a goroutine that can take a step, and a goroutine blocked in
\* Lock() or RLock() is woken once the mutex stays available.  No request
\* is obliged to arrive.
Running(p) ==
    \/ Lock(p)
    \/ RLock(p)
    \/ GetAllTasksRead(p)
    \/ GetTaskByIDRead(p)
    \/ CreateTaskBuild(p)
    \/ CreateTaskStore(p)
    \/ CreateTaskIncr(p)
    \/ UpdateTaskRead(p)
    \/ UpdateTaskStore(p)
    \/ DeleteTaskRead(p)
    \/ DeleteTaskDelete(p)
    \/ Unlock(p)
    \/ RUnlock(p)

SpecLive == SpecConc /\ \A p \in Procs : WF_vars(Running(p))

(***************************************************************************)
(* The Java service with one task and estimated times of every size: the   *)
(* conversion between hours at the API and minutes in the table.           *)
(***************************************************************************)
\* The largest estimatedTime sent, in ticks: its minutes pass MaxInt.
MaxHours == (MaxInt + 2) * TicksPerMinute

HoursSent == 0..MaxHours

TheTask == LongToString(1)

\* A valid request with the given estimatedTime.
RequestOf(hours) == [ValidRequest1 EXCEPT !.estimatedTime = Some(hours)]

\* The request a client builds from the task it has just read.
RequestFrom(response) ==
    [title         |-> Some(response.title),
     description   |-> Some(response.description),
     estimatedTime |-> Some(response.estimatedTime)]

MapperCreate ==
    /\ seq = 1
    /\ \E hours \in HoursSent :
         JavaServe("create", Null, RequestOf(hours),
                   ControllerCreateTask(RequestOf(hours), clock))

MapperUpdate ==
    \E hours \in HoursSent :
        JavaServe("update", TheTask, RequestOf(hours),
                  ControllerUpdateTask(TheTask, RequestOf(hours)))

MapperGet == JavaServe("get", TheTask, BadBody, ControllerGetTaskById(TheTask))

\* GET the task, then PUT it back with exactly the estimatedTime read.
MapperReadThenWrite ==
    /\ ControllerGetTaskById(TheTask).status = 200
    /\ LET request == RequestFrom(ControllerGetTaskById(TheTask).body)
       IN  JavaServe("update", TheTask, request, ControllerUpdateTask(TheTask, request))

InitMapper == Init /\ variant = "java"

NextMapper ==
    \/ MapperCreate
    \/ MapperUpdate
    \/ MapperGet
    \/ MapperReadThenWrite

SpecMapper == InitMapper /\ [][NextMapper]_vars

(***************************************************************************)
(* TaskService.deleteTask run by concurrent request threads.  The two      *)
(* repository calls of one deleteTask are separate statements against the  *)
(* table; @Transactional does not make another thread's existsById wait.   *)
(***************************************************************************)
\* What deleteById throws: nothing when the row is there.  When another
\* thread has removed the row in between, the build decides: the call does
\* nothing, or the delete of the vanished row fails.
DeleteByIdThrows(id) ==
    IF existsById(id)
    THEN {"none"}
    ELSE {"none", "ObjectOptimisticLockingFailureException"}

\* A DELETE request arrives and the controller calls deleteTask(id).
ThreadDeleteTask(p) ==
    /\ pc[p] = "idle"
    /\ started < MaxCalls
    /\ started' = started + 1
    /\ \E id \in ReqIds :
         call' = [call EXCEPT ![p] = [op |-> "deleteTask", id |-> id, input |-> BadBody]]
    /\ Goto(p, "existsById")
    /\ UNCHANGED <<mu, local, Sequential>>
    /\ StoreUnchanged /\ HistoryUnchanged

\* if (!taskRepository.existsById(id)) throw new TaskNotFoundException(id)
ThreadExistsById(p) ==
    /\ pc[p] = "existsById"
    /\ local' = [local EXCEPT
                    ![p].found = existsById(call[p].id),
                    ![p].result = IF existsById(call[p].id)
                                  THEN << >> ELSE <<"TaskNotFoundException">>]
    /\ Goto(p, IF existsById(call[p].id) THEN "deleteById" ELSE "respond")
    /\ UNCHANGED <<mu, call, started, Sequential>>
    /\ StoreUnchanged /\ HistoryUnchanged

\* taskRepository.deleteById(id)
ThreadDeleteById(p) ==
    /\ pc[p] = "deleteById"
    /\ \E thrown \in DeleteByIdThrows(call[p].id) :
         local' = [local EXCEPT ![p].result = <<thrown>>]
    /\ repo' = deleteById(call[p].id)
    /\ Goto(p, "respond")
    /\ UNCHANGED <<variant, main, seq, clock, last, mu, call, started>>
    /\ StoreUnchanged /\ HistoryUnchanged

\* The response: 204, or what the advice makes of the exception.
ThreadRespond(p) ==
    /\ pc[p] = "respond"
    /\ LET thrown == local[p].result[1]
           response ==
               IF thrown = "none"
               THEN [status |-> 204, body |-> NoContent]
               ELSE IF thrown = "TaskNotFoundException"
               THEN handleTaskNotFoundException(call[p].id)
               ELSE handleException([type |-> thrown, message |-> "x"])
       IN  /\ last' = Exchange("delete", LongToString(call[p].id), BadBody, response)
           /\ deleted' = IF thrown = "none" THEN deleted \cup {call[p].id} ELSE deleted
           /\ nDeleted' = IF thrown = "none" THEN nDeleted + 1 ELSE nDeleted
    /\ call' = [call EXCEPT ![p] = NoCall]
    /\ local' = [local EXCEPT ![p] = NoLocal]
    /\ Goto(p, "idle")
    /\ UNCHANGED <<variant, main, repo, seq, clock, issued, serial, mu, started>>
    /\ StoreUnchanged

InitThreads == Init /\ variant = "java"

NextThreads ==
    \/ JavaCreateTask
    \/ \E p \in Procs :
          \/ ThreadDeleteTask(p)
          \/ ThreadExistsById(p)
          \/ ThreadDeleteById(p)
          \/ ThreadRespond(p)

\* The Java service answering concurrent DELETE requests.
SpecThreads == InitThreads /\ [][NextThreads]_vars

(***************************************************************************)
(* What the claims speak of, in either variant.                            *)
(***************************************************************************)
IsGo == variant = "go"

IsJava == variant = "java"

\* The numeric id the last exchange addressed (0 when it addressed none).
LastId == IF IsGo THEN last.id ELSE ParseLong(last.id).value

\* The ids stored now.
StoredIds == IF IsGo THEN DOMAIN tasks ELSE DOMAIN repo

\* The last exchange carried a decoded body that fails validation.
LastInputInvalid ==
    /\ last.input # BadBody
    /\ IF IsGo THEN InvalidInput(last.input) ELSE Violations(last.input) # {}

\* The last exchange carried a decoded body that passes validation.
LastInputValid ==
    /\ last.input # BadBody
    /\ IF IsGo THEN ~InvalidInput(last.input) ELSE Violations(last.input) = {}

\* The last exchange addressed a well-formed id that is not stored.
LastIdMissing ==
    /\ IsJava => ParseLong(last.id).ok
    /\ LastId \notin StoredIds

\* C1: in the Go store every id returned by a successful CreateTask differs
\* from every id returned by an earlier one, deleted or not.
C1_IdsNeverReused ==
    IsGo => \A i, j \in DOMAIN issued : i # j => issued[i] # issued[j]

\* A create has succeeded after the task of an earlier create was deleted.
C1_Witness ==
    /\ IsGo
    /\ last.op = "create" /\ last.status = 201
    /\ Len(issued) >= 2
    /\ issued[1] \in deleted

\* No store call is in flight.
AllIdle == \A p \in Procs : pc[p] = "idle"

\* C2: concurrent CreateTask calls each return a distinct id, and once every
\* call has returned GetAllTasks returns exactly the tasks created and not
\* deleted since.
C2_ConcurrentCreates ==
    /\ \A i, j \in DOMAIN issued : i # j => issued[i] # issued[j]
    /\ AllIdle =>
         \A list \in GetAllTasks :
             { list[k].Id : k \in DOMAIN list } =
                 { issued[i] : i \in DOMAIN issued } \ deleted

\* Two CreateTask calls are in flight at once: one is about to return
\* while the other waits for the lock.
C2_Witness ==
    \E p, q \in Procs :
        /\ call[p].op = "CreateTask" /\ pc[p] = "Unlock"
        /\ call[q].op = "CreateTask" /\ pc[q] = "Lock"

C4_DeletedStaysNotFound ==
    \A id \in deleted :
        IF IsGo
        THEN /\ ~GetTaskByID(id).found
             /\ \A input \in TaskInputs : ~UpdateTask(id, input).found
             /\ ~DeleteTask(id).found
        ELSE /\ getTaskById(id).thrown = "TaskNotFoundException"
             /\ \A request \in TaskRequests :
                    updateTask(id, request).thrown = "TaskNotFoundException"
             /\ deleteTask(id).thrown = "TaskNotFoundException"

\* A second delete of a deleted id has been answered 404 after a later create.
C4_Witness ==
    /\ last.op = "delete"
    /\ last.status = 404
    /\ LastId \in deleted
    /\ StoredIds # {}

\* C5: the length of listAll is the number of successful creates minus the
\* number of successful deletes.
C5_ListLength ==
    /\ IsGo => \A list \in GetAllTasks : Len(list) = Len(issued) - nDeleted
    /\ IsJava => \A list \in findAll : Len(list) = Len(issued) - nDeleted

\* A list of one task was returned after two creates and one delete.
C5_Witness ==
    /\ last.op = "list"
    /\ Len(last.body) = 1
    /\ Len(issued) = 2
    /\ nDeleted = 1

\* C6: right after a successful create, getById with the returned id
\* answers the task that create returned.
C6_CreateThenGet ==
    (last.op = "create" /\ last.status = 201) =>
        IF IsGo
        THEN /\ GetTasksId(last.body.Id).status = 200
             /\ GetTasksId(last.body.Id).body = last.body
        ELSE /\ ControllerGetTaskById(last.body.id).status = 200
             /\ ControllerGetTaskById(last.body.id).body = last.body

\* A second task has just been created.
C6_Witness ==
    /\ last.op = "create" /\ last.status = 201
    /\ Len(issued) = 2

\* C7: an update of a stored id with input that fails validation is
\* answered 400 and changes nothing in the store.
C7_InvalidUpdateWritesNothing ==
    [][ (last'.op = "update" /\ LastInputInvalid' /\ LastId' \in StoredIds)
        => /\ last'.status = 400
           /\ tasks' = tasks /\ nextID' = nextID
           /\ repo' = repo /\ seq' = seq ]_vars

\* An update of a stored task with invalid input has been answered 400.
C7_Witness ==
    /\ last.op = "update"
    /\ LastInputInvalid
    /\ LastId \in StoredIds
    /\ last.status = 400

\* C8: a create whose input fails validation is answered 400, stores
\* nothing and consumes no id: the id of the next successful create is what
\* it was before.
C8_InvalidCreateConsumesNothing ==
    [][ (last'.op = "create" /\ LastInputInvalid')
        => /\ last'.status = 400
           /\ tasks' = tasks /\ nextID' = nextID
           /\ repo' = repo /\ seq' = seq
           /\ \A input \in TaskInputs :
                  ~InvalidInput(input) =>
                      PostTasks(input).body.Id' = PostTasks(input).body.Id ]_vars

\* An invalid create has been answered 400 between two successful creates.
C8_Witness ==
    /\ last.op = "create"
    /\ LastInputInvalid
    /\ last.status = 400
    /\ Len(issued) = 1

\* C9 as stated: no stored task has a title that is empty after trimming.
C9_NoBlankTitleStored ==
    /\ \A id \in DOMAIN tasks : ~IsBlank(tasks[id].Title)
    /\ \A id \in DOMAIN repo : ~IsBlank(repo[id].title)

\* C10: after a successful update the stored title, description and
\* duration are the input's, and getById answers the task update returned.
C10_UpdateReplaces ==
    (last.op = "update" /\ last.status = 200) =>
        IF IsGo
        THEN /\ tasks[last.id].Title = last.input.Title
             /\ tasks[last.id].Description = last.input.Description
             /\ tasks[last.id].Duration = last.input.Duration
             /\ GetTasksId(last.id).status = 200
             /\ GetTasksId(last.id).body = last.body
        ELSE /\ repo[LastId].title = last.input.title[1]
             /\ repo[LastId].description = last.input.description[1]
             /\ repo[LastId].duration =
                    convertHoursToMinutes(last.input.estimatedTime[1])
             /\ ControllerGetTaskById(last.id).status = 200
             /\ ControllerGetTaskById(last.id).body = last.body

\* An update has replaced the fields of the first of two stored tasks.
C10_Witness ==
    /\ last.op = "update" /\ last.status = 200
    /\ LastId = 1
    /\ Cardinality(StoredIds) = 2

\* C11: a successful update leaves the key set of the store, the id and the
\* createdAt of the updated task, and every other stored task as they were.
C11_UpdateKeepsIdentity ==
    [][ (last'.op = "update" /\ last'.status = 200)
        => /\ DOMAIN tasks' = DOMAIN tasks
           /\ DOMAIN repo' = DOMAIN repo
           /\ IsGo =>
                 /\ tasks'[LastId'].Id = tasks[LastId'].Id
                 /\ \A k \in DOMAIN tasks \ {LastId'} : tasks'[k] = tasks[k]
           /\ IsJava =>
                 /\ repo'[LastId'].id = repo[LastId'].id
                 /\ repo'[LastId'].createdAt = repo[LastId'].createdAt
                 /\ \A k \in DOMAIN repo \ {LastId'} : repo'[k] = repo[k] ]_vars

\* One of two stored tasks has been updated at a time later than its create.
C11_Witness ==
    /\ IsJava
    /\ last.op = "update" /\ last.status = 200
    /\ Cardinality(StoredIds) = 2
    /\ clock > repo[LastId].createdAt

\* C12 as stated: a successful update leaves the task's updatedAt at the
\* time of the update, which is not earlier than its previous updatedAt.
C12_UpdateRefreshesUpdatedAt ==
    [][ (IsJava /\ last'.op = "update" /\ last'.status = 200 /\ clock' = clock)
        => /\ repo'[LastId'].updatedAt = clock'
           /\ repo'[LastId'].updatedAt >= repo[LastId'].updatedAt ]_vars

\* C13 as stated: the task stored by a successful create has createdAt
\* equal to updatedAt, both the time at which the create began.
C13_CreateStampsOnce ==
    [][ (IsJava /\ last'.op = "create" /\ last'.status = 201 /\ seq' = seq + 1)
        => /\ repo'[seq].createdAt = repo'[seq].updatedAt
           /\ repo'[seq].createdAt = clock ]_vars

\* C14: every stored task has updatedAt greater than or equal to createdAt,
\* after any sequence of creates, updates and deletes under a clock that
\* never goes back.
C14_UpdatedNotBeforeCreated ==
    \A id \in DOMAIN repo : repo[id].updatedAt >= repo[id].createdAt

\* After a delete, a task whose two timestamps differ has been updated.
C14_Witness ==
    /\ IsJava
    /\ last.op = "update" /\ last.status = 200
    /\ nDeleted >= 1
    /\ repo[LastId].updatedAt > repo[LastId].createdAt

Reading(p) == pc[p] \in {"GetAllTasks", "GetTaskByID", "RUnlock"}

\* The goroutine is between Lock() and Unlock().
Writing(p) ==
    pc[p] \in {"CreateTask", "CreateTask_store", "CreateTask_incr",
               "UpdateTask", "UpdateTask_store",
               "DeleteTask", "DeleteTask_delete", "Unlock"}

\* C16: while a goroutine is inside a mutation's critical section no other
\* goroutine is inside any critical section, reading or writing.  (That two
\* readers can be inside together is the reachability of C16_Witness.)
C16_WriterExcludesAll ==
    \A p, q \in Procs : (p # q /\ Writing(p)) => ~(Reading(q) \/ Writing(q))

\* A GetAllTasks and a GetTaskByID hold the read lock at the same time.
C16_Witness ==
    \E p, q \in Procs :
        /\ p # q
        /\ Reading(p) /\ call[p].op = "GetAllTasks"
        /\ Reading(q) /\ call[q].op = "GetTaskByID"
        /\ mu.readers = {p, q}

\* Some goroutine inside a store function can take its next step.
CanStep ==
    \E p \in Procs :
        \/ pc[p] \notin {"idle", "Lock", "RLock"}
        \/ pc[p] = "Lock" /\ CanLock(p)
        \/ pc[p] = "RLock" /\ CanRLock(p)

\* C17: under fair scheduling every store function that was called returns;
\* a goroutine that has returned, on whatever path, holds tasksMu neither
\* for writing nor for reading; and while a call is in flight some
\* goroutine can step.
C17_EveryCallReturns ==
    /\ \A p \in Procs : (pc[p] # "idle") ~> (pc[p] = "idle")
    /\ [](\A p \in Procs : pc[p] = "idle" => (mu.writer # p /\ p \notin mu.readers))
    /\ [](~AllIdle => CanStep)

\* An UpdateTask or DeleteTask of a missing id is about to return, holding
\* the lock another call waits for.
C17_Witness ==
    \E p, q \in Procs :
        /\ pc[p] = "Unlock" /\ call[p].op \in {"UpdateTask", "DeleteTask"}
        /\ ~local[p].found
        /\ mu.writer = p
        /\ pc[q] \in {"Lock", "RLock"}

TaskOf(id, input) ==
    [Id |-> id, Title |-> input.Title, Description |-> input.Description,
     Duration |-> input.Duration]

\* C20, Go: in every reachable state every request whose body decodes is
\* answered by the outcome of its operation: 200 and the task for a get or
\* an update that succeeds, 201 and the created task, 204 and no body for a
\* delete that succeeds, 404 for an id that is not stored, 400 for an input
\* that fails validation.
C20_GoStatusCodes ==
    /\ \A id \in ReqIds :
          /\ GetTasksId(id).status = IF id \in DOMAIN tasks THEN 200 ELSE 404
          /\ id \in DOMAIN tasks => GetTasksId(id).body = tasks[id]
          /\ DeleteTasksId(id).status = IF id \in DOMAIN tasks THEN 204 ELSE 404
          /\ id \in DOMAIN tasks => DeleteTasksId(id).body = NoContent
    /\ \A input \in TaskInputs :
          /\ PostTasks(input).status = IF InvalidInput(input) THEN 400 ELSE 201
          /\ ~InvalidInput(input) => PostTasks(input).body = TaskOf(nextID, input)
    /\ \A id \in ReqIds, input \in TaskInputs :
          /\ PutTasksId(id, input).status =
                 IF InvalidInput(input) THEN 400
                 ELSE IF id \in DOMAIN tasks THEN 200 ELSE 404
          /\ (~InvalidInput(input) /\ id \in DOMAIN tasks) =>
                 PutTasksId(id, input).body = TaskOf(id, input)

\* C20, Java: the same with the error codes TASK_NOT_FOUND and
\* VALIDATION_ERROR, for every request with a numeric id and a readable body.
C20_JavaStatusCodes ==
    /\ \A k \in ReqIds :
          LET id == LongToString(k)
          IN  /\ ControllerGetTaskById(id).status = IF k \in DOMAIN repo THEN 200 ELSE 404
              /\ k \in DOMAIN repo => ControllerGetTaskById(id).body = toResponse(repo[k])
              /\ k \notin DOMAIN repo =>
                     ControllerGetTaskById(id).body.code = "TASK_NOT_FOUND"
              /\ ControllerDeleteTask(id).status = IF k \in DOMAIN repo THEN 204 ELSE 404
              /\ k \in DOMAIN repo => ControllerDeleteTask(id).body = NoContent
              /\ k \notin DOMAIN repo =>
                     ControllerDeleteTask(id).body.code = "TASK_NOT_FOUND"
    /\ \A request \in TaskRequests :
          LET r == ControllerCreateTask(request, clock)
          IN  /\ r.status = IF Violations(request) # {} THEN 400 ELSE 201
              /\ Violations(request) # {} => r.body.code = "VALIDATION_ERROR"
              /\ Violations(request) = {} =>
                     /\ r.body.id = LongToString(seq)
                     /\ r.body.title = request.title[1]
    /\ \A k \in ReqIds, request \in TaskRequests :
          LET r == ControllerUpdateTask(LongToString(k), request)
          IN  /\ r.status = IF Violations(request) # {} THEN 400
                            ELSE IF k \in DOMAIN repo THEN 200 ELSE 404
              /\ Violations(request) # {} => r.body.code = "VALIDATION_ERROR"
              /\ (Violations(request) = {} /\ k \notin DOMAIN repo) =>
                     r.body.code = "TASK_NOT_FOUND"
              /\ (Violations(request) = {} /\ k \in DOMAIN repo) =>
                     /\ r.body.id = LongToString(k)
                     /\ r.body.title = request.title[1]

C21_BadIdIsBadRequest ==
    (IsJava /\ last.op \in {"get", "update", "delete"} /\ ~ParseLong(last.id).ok)
        => last.status = 400

\* The hours, in ticks, whose rounded minutes fit an int.
HoursInRange == { h \in HoursSent : MathRound(h) <= MaxInt }

\* C22: on write the stored minutes m are the hours times 60 rounded to the
\* nearest minute, halves up (m - 1/2 <= minutes sent < m + 1/2), for every
\* estimatedTime whose minutes fit an int; on read the hours returned are
\* the stored minutes over 60, exactly; and the table holds whole minutes.
C22_Conversion ==
    /\ \A h \in HoursInRange :
          LET m == toEntity(RequestOf(h), clock, clock).duration
          IN  /\ TicksPerMinute * (2 * m - 1) <= 2 * h
              /\ 2 * h < TicksPerMinute * (2 * m + 1)
              /\ updateEntity(NewTask(<< >>, << >>, 0, clock, clock), RequestOf(h)).duration = m
    /\ \A id \in DOMAIN repo :
          /\ repo[id].duration \in Int
          /\ toResponse(repo[id]).estimatedTime = repo[id].duration * TicksPerMinute
    /\ (last.op \in {"create", "update"} /\ last.status \in {200, 201}
           /\ last.input.estimatedTime[1] \in HoursInRange) =>
          /\ repo[1].duration = MathRound(last.input.estimatedTime[1])
          /\ last.body.estimatedTime = repo[1].duration * TicksPerMinute

\* An estimatedTime with half a minute or more over whole minutes has been
\* written by an update and is stored as the next whole minute.
C22_Witness ==
    /\ last.op = "update" /\ last.status = 200
    /\ LET h == last.input.estimatedTime[1]
       IN  /\ h \in HoursInRange
           /\ 2 * (h % TicksPerMinute) >= TicksPerMinute
           /\ repo[1].duration = (h \div TicksPerMinute) + 1
           /\ last.body.estimatedTime = repo[1].duration * TicksPerMinute

\* C23: an update that sends back exactly what a read of the task returns
\* succeeds and stores the minutes that were stored, for every stored
\* number of minutes that is not negative; so no number of such cycles
\* moves the duration.
C23_NoDrift ==
    [][ (/\ last'.op = "update"
         /\ 1 \in DOMAIN repo
         /\ repo[1].duration >= 0
         /\ last'.id = TheTask
         /\ last'.input = RequestFrom(toResponse(repo[1])))
        => /\ last'.status = 200
           /\ repo'[1].duration = repo[1].duration
           /\ last'.body.estimatedTime = last'.input.estimatedTime[1] ]_vars

\* A task of a number of minutes that is not a whole number of hours has
\* been read and written back.
C23_Witness ==
    /\ last.op = "update" /\ last.status = 200
    /\ 1 \in DOMAIN repo
    /\ last.input = RequestFrom(toResponse(repo[1]))
    /\ repo[1].duration > MINUTES_PER_HOUR
    /\ repo[1].duration % MINUTES_PER_HOUR = MINUTES_PER_HOUR \div 2

\* C24: in every reachable state, for every id that is not stored, the
\* service's updateTask, getTaskById and deleteTask throw
\* TaskNotFoundException and the Go UpdateTask and DeleteTask report not
\* found, and the store they leave is the store they found.
C24_NotFoundWritesNothing ==
    /\ IsJava =>
          \A id \in ReqIds \ DOMAIN repo :
              /\ getTaskById(id).thrown = "TaskNotFoundException"
              /\ getTaskById(id).repo = repo /\ getTaskById(id).seq = seq
              /\ deleteTask(id).thrown = "TaskNotFoundException"
              /\ deleteTask(id).repo = repo /\ deleteTask(id).seq = seq
              /\ \A request \in {ValidRequest1, ValidRequest2} :
                     /\ updateTask(id, request).thrown = "TaskNotFoundException"
                     /\ updateTask(id, request).repo = repo
                     /\ updateTask(id, request).seq = seq
    /\ IsGo =>
          \A id \in ReqIds \ DOMAIN tasks :
              /\ ~DeleteTask(id).found
              /\ DeleteTask(id).tasks = tasks
              /\ \A input \in TaskInputs :
                     /\ ~UpdateTask(id, input).found
                     /\ UpdateTask(id, input).tasks = tasks
    /\ (last.op \in {"get", "update", "delete"} /\ last.status = 404) =>
          LastId \notin StoredIds

\* A valid update of an id that was never stored has been answered 404
\* while another task is stored.
C24_Witness ==
    /\ last.op = "update" /\ last.status = 404
    /\ LastInputValid
    /\ LastId \notin deleted
    /\ StoredIds # {}

\* C25 as stated: a create whose title and duration are valid is answered
\* 201 when its description is absent or empty.  (A description absent from
\* the JSON decodes to the empty string in Go and to null in Java.)
C25_DescriptionOptional ==
    /\ IsGo =>
          \A input \in TaskInputs :
              (~IsBlank(input.Title) /\ input.Duration >= 1 /\ input.Description = << >>)
                  => PostTasks(input).status = 201
    /\ IsJava =>
          \A description \in {Null, Some(<< >>)} :
              ControllerCreateTask([ValidRequest1 EXCEPT !.description = description],
                                   clock).status = 201

\* The bounds of CreateTaskRequest and UpdateTaskRequest.
MinTitleLength == 3

MaxTitleLength == 255

MinDuration == 1

MaxDuration == 10080

\* C26 as stated: every task stored by the Go service has a title of
\* MinTitleLength..MaxTitleLength characters and a duration of
\* MinDuration..MaxDuration minutes.
C26_BoundsEnforced ==
    \A id \in DOMAIN tasks :
        /\ Len(tasks[id].Title) \in MinTitleLength..MaxTitleLength
        /\ tasks[id].Duration \in MinDuration..MaxDuration

\* The exceptions that are neither not-found, validation nor id-format.
Unexpected ==
    { ex \in Exceptions :
        ex.type \notin {"TaskNotFoundException", "MethodArgumentNotValidException",
                        "NumberFormatException"} }

\* C27: any two unexpected exceptions get the same response, 500 with the
\* fixed message and code INTERNAL_ERROR, whatever their class and message;
\* and that is the response that was sent whenever the answer was 500.
C27_GenericFailure ==
    /\ \A e1, e2 \in Unexpected :
          /\ handleException(e1) = handleException(e2)
          /\ handleException(e1).status = 500
          /\ handleException(e1).body =
                 ErrorResponse("An unexpected error occurred", "INTERNAL_ERROR")
    /\ last.status = 500 =>
          last.body = ErrorResponse("An unexpected error occurred", "INTERNAL_ERROR")

\* An unreadable body has been answered 500 while a task is stored.
C27_Witness ==
    /\ IsJava
    /\ last.input = BadBody /\ last.op = "update"
    /\ last.status = 500
    /\ ParseLong(last.id).ok /\ LastId \in StoredIds

\* C28 as stated: of the deletes of one id exactly one reports success,
\* so the successes are as many as the ids deleted, and no delete ends in
\* an internal error: each is answered 204 or 404.
C28_OneDeleteWins ==
    /\ nDeleted = Cardinality(deleted)
    /\ last.op = "delete" => last.status \in {204, 404}

\* C29 as stated: for every estimatedTime the validation accepts (not null,
\* not negative, however large) the minutes a successful create or update
\* stores are not negative and are the rounded minutes sent: the narrowing
\* to int never wraps.
C29_NarrowingNeverWraps ==
    (last.op \in {"create", "update"} /\ last.status \in {200, 201}
        /\ Violations(last.input) = {}) =>
          /\ repo[1].duration >= 0
          /\ repo[1].duration = MathRound(last.input.estimatedTime[1])

StartupOrder == <<"NewConnection", "RunMigrations", "Run">>

\* C30: the steps of the Go service's start run in the order connection,
\* migrations, server; the server is started only with the connection open
\* and the migrations done; and once a step has failed the process has
\* exited with status 1, with no later step run.
C30_StartupOrder ==
    /\ Len(main.steps) <= Len(StartupOrder)
    /\ main.steps = SubSeq(StartupOrder, 1, Len(main.steps))
    /\ (main.server # "none" \/ main.pc = "Run") =>
           (main.db # "none" /\ main.migrated)
    /\ main.migrated => main.db # "none"
    /\ main.failed # "none" =>
           /\ main.exit = 1
           /\ main.pc = "exited"
           /\ main.steps[Len(main.steps)] = main.failed
           /\ main.failed # "Run" => main.server = "none"

\* The connection was opened and the migrations ran, then the server
\* failed to start, never listening, and the process exited with status 1.
C30_Witness ==
    /\ main.steps = StartupOrder
    /\ main.db = "open" /\ main.migrated
    /\ main.failed = "Run"
    /\ main.server = "created"
    /\ main.exit = 1

====
